---------------------------- MODULE Spec2Model ----------------------------
(***************************************************************************)
(* A model of make-pdf.js: the pipeline that unpacks a .webslider archive, *)
(* reads the optional manifest, enumerates the slide folders, serves the   *)
(* extracted tree over a local HTTP listener, drives a browser over the    *)
(* slides and composes the screenshots into a PDF.                         *)
(*                                                                         *)
(* A run of main() is a sequence of steps, one per await of the source;    *)
(* the archive's content and the outcome of every call into the operating  *)
(* system, the browser and the PDF library are the inputs.                 *)
(***************************************************************************)
EXTENDS Integers, Sequences, FiniteSets, TLC

(***************************************************************************)
(* Bounds of the model.                                                    *)
(***************************************************************************)
\* the largest number of entries of the archive's slides directory
MaxEntries == 3

(***************************************************************************)
(* Folder names are sequences of characters.  The characters of the model  *)
(* are two digits, two letters and '#', which starts the fragment of a     *)
(* URL.  Code(c) is the UTF-16 code unit, the order of Array.sort().       *)
(***************************************************************************)
Digits == {"1", "2"}

Chars == {"#", "1", "2", "a", "b"}

Code(c) ==
  CASE c = "#" -> 35
    [] c = "1" -> 49
    [] c = "2" -> 50
    [] c = "a" -> 97
    [] c = "b" -> 98

DigitValue(c) == Code(c) - 48

\* the folder names an archive of the model may hold in slides/
Names ==
  { <<"1">>, <<"2">>, <<"1", "2">>, <<"a">>, <<"a", "#">>, <<"b">> }

\* /^\d+$/.test(n)
IsAllDigits(n) == Len(n) > 0 /\ \A k \in 1..Len(n) : n[k] \in Digits

\* Number(n) of an all-digit name
RECURSIVE NumberOf(_)
NumberOf(n) ==
  IF Len(n) = 0 THEN 0
  ELSE 10 * NumberOf(SubSeq(n, 1, Len(n) - 1)) + DigitValue(n[Len(n)])

\* a < b in the order of Array.prototype.sort() without a comparator:
\* code unit by code unit, a proper prefix first
RECURSIVE StringLess(_, _)
StringLess(a, b) ==
  IF Len(b) = 0 THEN FALSE
  ELSE IF Len(a) = 0 THEN TRUE
  ELSE IF Code(Head(a)) # Code(Head(b)) THEN Code(Head(a)) < Code(Head(b))
  ELSE StringLess(Tail(a), Tail(b))

(***************************************************************************)
(* JavaScript values of the manifest's fields.                             *)
(***************************************************************************)
Undefined == [t |-> "undefined", v |-> 0]

Num(n) == [t |-> "number", v |-> n]

\* the string whose text is the decimal numeral of n
Str(n) == [t |-> "string", v |-> n]

\* ToBoolean: undefined, 0 and "" are falsy; the strings here are not empty
Truthy(x) == x.t # "undefined" /\ ~(x.t = "number" /\ x.v = 0)

\* ToNumber, as the * operator applies it: a numeral string is its number
ToNumber(x) == x.v

(***************************************************************************)
(* The archive.  Its manifest.json is missing, is not JSON, or is a JSON   *)
(* value; a JSON value without a slideSize object reads both fields as     *)
(* undefined through the optional chaining of line 330.                    *)
(***************************************************************************)
WidthValues == {Undefined, Num(0), Num(1920), Str(1920)}

HeightValues == {Undefined, Num(1080), Str(1080)}

JsonManifest(w, h) == [kind |-> "json", width |-> w, height |-> h]

ManifestFiles ==
  { [kind |-> k, width |-> Undefined, height |-> Undefined] :
      k \in {"missing", "unparsable"} }
  \cup { JsonManifest(w, h) : w \in WidthValues, h \in HeightValues }

\* an entry of slides/ is a plain file, a directory without index.html or a
\* directory with index.html
EntryKinds == {"file", "dir", "dirIndex"}

\* the slides directory: absent, or a set of at most MaxEntries entries
SlidesDirs ==
  { [exists |-> FALSE, entries |-> <<>>] }
  \cup { [exists |-> TRUE, entries |-> e] :
           e \in UNION { [D -> EntryKinds] :
                           D \in { X \in SUBSET Names : Cardinality(X) <= MaxEntries } } }

\* the names an archive of the model may hold beside slides/, at its root
RootNames == { <<"a">> }

\* the entries of the archive's root other than manifest.json and slides/:
\* slide folders that hold an index.html
RootDirs == UNION { [D -> {"dirIndex"}] : D \in SUBSET RootNames }

Archives == [manifest : ManifestFiles, slides : SlidesDirs, root : RootDirs]

(***************************************************************************)
(* readManifestIfExists: the parsed manifest, or null when the file cannot *)
(* be read or parsed.                                                      *)
(***************************************************************************)
NullManifest == [kind |-> "null", width |-> Undefined, height |-> Undefined]

readManifestIfExists(file) ==
  IF file.kind = "json" THEN file ELSE NullManifest

\* lines 327-336: the canvas size <<slideWidth, slideHeight>>
DefaultWidth == 1280

DefaultHeight == 720

ResolveSlideSize(manifest) ==
  IF Truthy(manifest.width) /\ Truthy(manifest.height)
  THEN <<manifest.width, manifest.height>>
  ELSE <<Num(DefaultWidth), Num(DefaultHeight)>>

\* pxToPdfPoints with the two resolutions exchanged
pxToPdfPointsExchanged(px, dpi) == (ToNumber(px) * dpi) \div 72

\* pxToPdfPoints: (px * 72) / dpi.  The canvas sizes of the model are
\* multiples of 4, for which the quotient is an integer.
pxToPdfPoints(px, dpi) == (ToNumber(px) * 72) \div dpi

Dpi == 96

(***************************************************************************)
(* Slide enumeration.                                                      *)
(***************************************************************************)
\* entries.filter((d) => d.isDirectory()).map((d) => d.name)
DirectoryNames(dir) == { n \in DOMAIN dir.entries : dir.entries[n] # "file" }

\* sort((a, b) => Number(a) - Number(b)); the all-digit names of the model
\* have distinct values, so the result does not depend on readdir's order
RECURSIVE NumericSort(_)
NumericSort(S) ==
  IF S = {} THEN <<>>
  ELSE LET m == CHOOSE x \in S : \A y \in S : NumberOf(x) <= NumberOf(y)
       IN  <<m>> \o NumericSort(S \ {m})

\* Array.prototype.sort() without a comparator
RECURSIVE LexSort(_)
LexSort(S) ==
  IF S = {} THEN <<>>
  ELSE LET m == CHOOSE x \in S : \A y \in S \ {x} : StringLess(x, y)
       IN  <<m>> \o LexSort(S \ {m})

\* listNumericSlideFolders with sort() left without its comparator
listNumericSlideFoldersLexicographic(dir) ==
  IF ~dir.exists THEN <<>>
  ELSE LexSort({ n \in DirectoryNames(dir) : IsAllDigits(n) })

listNumericSlideFolders(dir) ==
  IF ~dir.exists THEN <<>>
  ELSE NumericSort({ n \in DirectoryNames(dir) : IsAllDigits(n) })

\* lines 345-353: the directories of slides/ that hold an index.html
FallbackSlideFolders(dir) ==
  LexSort({ n \in DirectoryNames(dir) : dir.entries[n] = "dirIndex" })

(***************************************************************************)
(* The file server (createServer).  A URL path is a sequence of segments,  *)
(* a segment a sequence of characters; "slides", "index.html" and ".html"  *)
(* stand for their characters, none of which is '#'.                       *)
(***************************************************************************)
SlidesSeg == <<"slides">>

IndexSeg == <<"index.html">>

HasHash(seg) == \E k \in 1..Len(seg) : seg[k] = "#"

BeforeHash(seg) ==
  LET k == CHOOSE j \in 1..Len(seg) :
             seg[j] = "#" /\ \A l \in 1..(j - 1) : seg[l] # "#"
  IN  SubSeq(seg, 1, k - 1)

\* new URL(req.url).pathname: the URL's path ends where its fragment starts
RECURSIVE UrlPathname(_)
UrlPathname(segs) ==
  IF segs = <<>> THEN <<>>
  ELSE IF HasHash(Head(segs))
       THEN IF BeforeHash(Head(segs)) = <<>> THEN <<>>
            ELSE <<BeforeHash(Head(segs))>>
       ELSE <<Head(segs)>> \o UrlPathname(Tail(segs))

\* what the extracted tree holds at a path: "none", "file" or "dir"
EntryLookup(entries, rest) ==
  IF rest[1] \notin DOMAIN entries THEN "none"
  ELSE IF Len(rest) = 1
       THEN (IF entries[rest[1]] = "file" THEN "file" ELSE "dir")
  ELSE IF Len(rest) = 2 /\ rest[2] = IndexSeg /\ entries[rest[1]] = "dirIndex"
       THEN "file"
  ELSE "none"

Lookup(tree, path) ==
  IF path = <<>> THEN "dir"
  ELSE IF path[1] = SlidesSeg
       THEN IF ~tree.slides.exists THEN "none"
            ELSE IF Len(path) = 1 THEN "dir"
            ELSE EntryLookup(tree.slides.entries, Tail(path))
  ELSE EntryLookup(tree.root, path)

\* lines 190-204 and 294: the response to a request for a URL
ServerFetch(tree, url) ==
  LET p == UrlPathname(url)
      indexPath == p \o <<IndexSeg>>
      fsPath == IF Lookup(tree, p) = "dir" /\ Lookup(tree, indexPath) # "none"
                THEN indexPath ELSE p
  IN  IF Lookup(tree, fsPath) = "none"
      THEN [status |-> 404, file |-> <<>>]
      ELSE [status |-> 200, file |-> fsPath]

\* TryPaths with its first two candidates exchanged
TryPathsDirectoryFirst(s) ==
  << <<SlidesSeg, s>>,
     <<SlidesSeg, s, IndexSeg>>,
     <<s, IndexSeg>>,
     <<s>>,
     <<SlidesSeg, s \o <<".html">>>> >>

\* lines 416-422
TryPaths(s) ==
  << <<SlidesSeg, s, IndexSeg>>,
     <<SlidesSeg, s>>,
     <<s, IndexSeg>>,
     <<s>>,
     <<SlidesSeg, s \o <<".html">>>> >>

\* lines 424-435: the first candidate answered with status 200, or null
NoUrl == <<>>

ResolveUrlPath(tree, s) ==
  LET ok == { k \in 1..Len(TryPaths(s)) :
                ServerFetch(tree, TryPaths(s)[k]).status = 200 }
  IN  IF ok = {} THEN NoUrl
      ELSE TryPaths(s)[CHOOSE k \in ok : \A l \in ok : k <= l]

(***************************************************************************)
(* The state of a run.                                                     *)
(***************************************************************************)
VARIABLES
  archive,      \* the content of the input archive
  pc,           \* the statement main() is at
  exitCode,     \* the process exit status, Running until the process ends
  exitReason,   \* which diagnostic ended the run
  tmp,          \* the working directory: "none", "created" or "removed"
  slideWidth,   \* the canvas width, a JavaScript value
  slideHeight,  \* the canvas height, a JavaScript value
  slideDirs,    \* the SlideSet
  i,            \* the render loop's index into slideDirs, from 0
  urlPath,      \* the URL path resolved for slide i
  images,       \* the captured slides
  pdfDoc,       \* the pages of the PDF document being composed
  output,       \* the output file
  srv,          \* the HTTP listener: "none", "running" or "stopped"
  browser,      \* the browser: "none", "running" or "closed"
  calls         \* the cleanup calls made so far, in order

vars ==
  << archive, pc, exitCode, exitReason, tmp, slideWidth, slideHeight,
     slideDirs, i, urlPath, images, pdfDoc, output, srv, browser, calls >>

\* no exit status yet: the process is running
Running == 0 - 1

NoOutput == [written |-> FALSE, pages |-> <<>>]

Init ==
  /\ archive \in Archives
  /\ pc = "args"
  /\ exitCode = Running
  /\ exitReason = "none"
  /\ tmp = "none"
  /\ slideWidth = Undefined
  /\ slideHeight = Undefined
  /\ slideDirs = <<>>
  /\ i = 0
  /\ urlPath = NoUrl
  /\ images = <<>>
  /\ pdfDoc = <<>>
  /\ output = NoOutput
  /\ srv = "none"
  /\ browser = "none"
  /\ calls = <<>>

\* process.exit(code) after the diagnostic `reason`
Exit(code, reason) ==
  /\ pc' = "exited"
  /\ exitCode' = code
  /\ exitReason' = reason

\* an exception that leaves main(): main().catch prints it and exits with 1
Fatal == Exit(1, "Fatal")

\* line 37: fewer than two arguments
CheckArgs ==
  /\ pc = "args"
  /\ \E enough \in BOOLEAN :
       IF enough
       THEN pc' = "stat" /\ UNCHANGED <<exitCode, exitReason>>
       ELSE Exit(2, "Usage")
  /\ UNCHANGED << archive, tmp, slideWidth, slideHeight, slideDirs, i, urlPath,
                  images, pdfDoc, output, srv, browser, calls >>

\* lines 305-310
StatArchive ==
  /\ pc = "stat"
  /\ \E found \in BOOLEAN :
       IF found
       THEN pc' = "mkdtemp" /\ UNCHANGED <<exitCode, exitReason>>
       ELSE Exit(1, "ArchiveNotFound")
  /\ UNCHANGED << archive, tmp, slideWidth, slideHeight, slideDirs, i, urlPath,
                  images, pdfDoc, output, srv, browser, calls >>

\* lines 313-315
MakeTmp ==
  /\ pc = "mkdtemp"
  /\ \E ok \in BOOLEAN :
       IF ok
       THEN tmp' = "created" /\ pc' = "extract"
            /\ UNCHANGED <<exitCode, exitReason>>
       ELSE Fatal /\ UNCHANGED tmp
  /\ UNCHANGED << archive, slideWidth, slideHeight, slideDirs, i, urlPath,
                  images, pdfDoc, output, srv, browser, calls >>

\* lines 317-323
ExtractArchive ==
  /\ pc = "extract"
  /\ \E ok \in BOOLEAN :
       IF ok
       THEN pc' = "manifest" /\ UNCHANGED <<exitCode, exitReason>>
       ELSE Exit(1, "ExtractionFailed")
  /\ UNCHANGED << archive, tmp, slideWidth, slideHeight, slideDirs, i, urlPath,
                  images, pdfDoc, output, srv, browser, calls >>

\* lines 326-336
ReadManifest ==
  /\ pc = "manifest"
  /\ LET size == ResolveSlideSize(readManifestIfExists(archive.manifest))
     IN  slideWidth' = size[1] /\ slideHeight' = size[2]
  /\ pc' = "slides"
  /\ UNCHANGED << archive, exitCode, exitReason, tmp, slideDirs, i, urlPath,
                  images, pdfDoc, output, srv, browser, calls >>

\* line 342
PrimaryIsEmpty(dir) == Len(listNumericSlideFolders(dir)) = 0

\* the check of line 360 left out
NoSlidesUnchecked(dirs) == FALSE

\* line 360
NoSlides(dirs) == Len(dirs) = 0

\* lines 339-365
FindSlides ==
  /\ pc = "slides"
  /\ LET dir == archive.slides
         primary == listNumericSlideFolders(dir)
     IN  IF PrimaryIsEmpty(dir) /\ ~dir.exists
         THEN \* fsp.readdir throws: line 356
              Exit(1, "NoSlidesFound") /\ UNCHANGED slideDirs
         ELSE LET found == IF PrimaryIsEmpty(dir)
                           THEN FallbackSlideFolders(dir) ELSE primary
              IN  IF NoSlides(found)
                  THEN Exit(1, "NoSlidesFound") /\ slideDirs' = found
                  ELSE /\ slideDirs' = found
                       /\ pc' = "server"
                       /\ UNCHANGED <<exitCode, exitReason>>
  /\ UNCHANGED << archive, tmp, slideWidth, slideHeight, i, urlPath,
                  images, pdfDoc, output, srv, browser, calls >>

\* line 368
StartServer ==
  /\ pc = "server"
  /\ \E ok \in BOOLEAN :
       IF ok
       THEN srv' = "running" /\ pc' = "chrome"
            /\ UNCHANGED <<exitCode, exitReason>>
       ELSE Fatal /\ UNCHANGED srv
  /\ UNCHANGED << archive, tmp, slideWidth, slideHeight, slideDirs, i, urlPath,
                  images, pdfDoc, output, browser, calls >>

\* lines 374-392
FindChrome ==
  /\ pc = "chrome"
  /\ \E found \in BOOLEAN, stopped \in BOOLEAN :
       IF found
       THEN pc' = "launch" /\ UNCHANGED <<exitCode, exitReason, srv, calls>>
       ELSE /\ calls' = Append(calls, "srv.stop")
            /\ IF stopped
               THEN srv' = "stopped" /\ Exit(1, "BrowserNotFound")
               ELSE UNCHANGED srv /\ Fatal
  /\ UNCHANGED << archive, tmp, slideWidth, slideHeight, slideDirs, i, urlPath,
                  images, pdfDoc, output, browser >>

\* lines 396-406: launch is outside the try block
LaunchBrowser ==
  /\ pc = "launch"
  /\ \E ok \in BOOLEAN :
       IF ok
       THEN browser' = "running" /\ pc' = "page"
            /\ UNCHANGED <<exitCode, exitReason>>
       ELSE Fatal /\ UNCHANGED browser
  /\ UNCHANGED << archive, tmp, slideWidth, slideHeight, slideDirs, i, urlPath,
                  images, pdfDoc, output, srv, calls >>

\* lines 409-412: newPage and setViewport; from here an exception is caught
\* at line 508
NewPage ==
  /\ pc = "page"
  /\ \E ok \in BOOLEAN : pc' = IF ok THEN "loop" ELSE "catch"
  /\ i' = 0
  /\ images' = <<>>
  /\ UNCHANGED << archive, exitCode, exitReason, tmp, slideWidth, slideHeight,
                  slideDirs, urlPath, pdfDoc, output, srv, browser, calls >>

\* ProbeSlide with an unresolved slide raising instead of `continue`
ProbeSlideThrowing ==
  /\ pc = "loop"
  /\ i < Len(slideDirs)
  /\ LET p == ResolveUrlPath(archive, slideDirs[i + 1])
     IN  /\ urlPath' = p
         /\ i' = i
         /\ pc' = IF p = NoUrl THEN "catch" ELSE "goto"
  /\ UNCHANGED << archive, exitCode, exitReason, tmp, slideWidth, slideHeight,
                  slideDirs, images, pdfDoc, output, srv, browser, calls >>

\* lines 414-440: the probes of slide i; an unresolved slide is skipped
ProbeSlide ==
  /\ pc = "loop"
  /\ i < Len(slideDirs)
  /\ LET p == ResolveUrlPath(archive, slideDirs[i + 1])
     IN  /\ urlPath' = p
         /\ IF p = NoUrl
            THEN i' = i + 1 /\ pc' = "loop"
            ELSE i' = i /\ pc' = "goto"
  /\ UNCHANGED << archive, exitCode, exitReason, tmp, slideWidth, slideHeight,
                  slideDirs, images, pdfDoc, output, srv, browser, calls >>

\* lines 442-446: page.goto with its 30 s timeout
Navigate ==
  /\ pc = "goto"
  /\ \E ok \in BOOLEAN : pc' = IF ok THEN "screenshot" ELSE "catch"
  /\ UNCHANGED << archive, exitCode, exitReason, tmp, slideWidth, slideHeight,
                  slideDirs, i, urlPath, images, pdfDoc, output, srv, browser,
                  calls >>

\* lines 448-456: the JPEG slide-<i>.jpg shows what the server sent for
\* urlPath; `slide` and `shown` record where the picture comes from
Capture(n, s, p, tree, w, h) ==
  [ path   |-> n,
    width  |-> w,
    height |-> h,
    slide  |-> s,
    shown  |-> ServerFetch(tree, p).file ]

Screenshot ==
  /\ pc = "screenshot"
  /\ \E ok \in BOOLEAN :
       IF ok
       THEN /\ images' = Append(images,
                 Capture(i, slideDirs[i + 1], urlPath, archive,
                         slideWidth, slideHeight))
            /\ i' = i + 1
            /\ pc' = "loop"
       ELSE pc' = "catch" /\ UNCHANGED <<images, i>>
  /\ UNCHANGED << archive, exitCode, exitReason, tmp, slideWidth, slideHeight,
                  slideDirs, urlPath, pdfDoc, output, srv, browser, calls >>

\* lines 459-464
EndLoop ==
  /\ pc = "loop"
  /\ i >= Len(slideDirs)
  /\ IF Len(images) = 0
     THEN \E closed \in BOOLEAN, stopped \in BOOLEAN :
            IF ~closed
            THEN /\ calls' = Append(calls, "browser.close")
                 /\ pc' = "catch"
                 /\ UNCHANGED <<exitCode, exitReason, browser, srv>>
            ELSE /\ calls' = calls \o <<"browser.close", "srv.stop">>
                 /\ browser' = "closed"
                 /\ IF stopped
                    THEN srv' = "stopped" /\ Exit(1, "NoRenderableSlides")
                    ELSE /\ pc' = "catch"
                         /\ UNCHANGED <<exitCode, exitReason, srv>>
     ELSE /\ pc' = "compose"
          /\ UNCHANGED <<exitCode, exitReason, browser, srv, calls>>
  /\ UNCHANGED << archive, tmp, slideWidth, slideHeight, slideDirs, i, urlPath,
                  images, pdfDoc, output >>

\* lines 471-481: one page per image, the image drawn over the whole page
PdfPage(img) ==
  LET widthPts == pxToPdfPoints(img.width, Dpi)
      heightPts == pxToPdfPoints(img.height, Dpi)
  IN  [ image  |-> img,
        width  |-> widthPts,
        height |-> heightPts,
        draw   |-> [x |-> 0, y |-> 0, width |-> widthPts, height |-> heightPts] ]

\* lines 467-482
ComposePdf ==
  /\ pc = "compose"
  /\ \E ok \in BOOLEAN :
       IF ok
       THEN /\ pdfDoc' = [k \in 1..Len(images) |-> PdfPage(images[k])]
            /\ pc' = "write"
       ELSE pc' = "catch" /\ UNCHANGED pdfDoc
  /\ UNCHANGED << archive, exitCode, exitReason, tmp, slideWidth, slideHeight,
                  slideDirs, i, urlPath, images, output, srv, browser, calls >>

\* lines 485-494
WriteOutput ==
  /\ pc = "write"
  /\ \E ok \in BOOLEAN :
       IF ok
       THEN output' = [written |-> TRUE, pages |-> pdfDoc] /\ pc' = "close"
       ELSE pc' = "catch" /\ UNCHANGED output
  /\ UNCHANGED << archive, exitCode, exitReason, tmp, slideWidth, slideHeight,
                  slideDirs, i, urlPath, images, pdfDoc, srv, browser, calls >>

\* line 497
CloseBrowser ==
  /\ pc = "close"
  /\ calls' = Append(calls, "browser.close")
  /\ \E ok \in BOOLEAN :
       IF ok
       THEN browser' = "closed" /\ pc' = "stop"
       ELSE pc' = "catch" /\ UNCHANGED browser
  /\ UNCHANGED << archive, exitCode, exitReason, tmp, slideWidth, slideHeight,
                  slideDirs, i, urlPath, images, pdfDoc, output, srv >>

\* line 498
StopServer ==
  /\ pc = "stop"
  /\ calls' = Append(calls, "srv.stop")
  /\ \E ok \in BOOLEAN :
       IF ok
       THEN srv' = "stopped" /\ pc' = "rm"
       ELSE pc' = "catch" /\ UNCHANGED srv
  /\ UNCHANGED << archive, exitCode, exitReason, tmp, slideWidth, slideHeight,
                  slideDirs, i, urlPath, images, pdfDoc, output, browser >>

\* lines 501-507: a failed removal is logged; main() returns and the
\* process ends with status 0
RemoveTmp ==
  /\ pc = "rm"
  /\ calls' = Append(calls, "rm")
  /\ \E ok \in BOOLEAN : tmp' = IF ok THEN "removed" ELSE tmp
  /\ Exit(0, "Done")
  /\ UNCHANGED << archive, slideWidth, slideHeight, slideDirs, i, urlPath,
                  images, pdfDoc, output, srv, browser >>

\* lines 508-517: the handler of an exception raised inside the try block
CatchError ==
  /\ pc = "catch"
  /\ \E closed \in BOOLEAN, stopped \in BOOLEAN :
       IF ~closed
       THEN /\ calls' = Append(calls, "browser.close")
            /\ UNCHANGED <<browser, srv>>
       ELSE /\ calls' = calls \o <<"browser.close", "srv.stop">>
            /\ browser' = "closed"
            /\ srv' = IF stopped THEN "stopped" ELSE srv
  /\ Exit(1, "RenderingError")
  /\ UNCHANGED << archive, tmp, slideWidth, slideHeight, slideDirs, i, urlPath,
                  images, pdfDoc, output >>

Next ==
  \/ CheckArgs
  \/ StatArchive
  \/ MakeTmp
  \/ ExtractArchive
  \/ ReadManifest
  \/ FindSlides
  \/ StartServer
  \/ FindChrome
  \/ LaunchBrowser
  \/ NewPage
  \/ ProbeSlide
  \/ Navigate
  \/ Screenshot
  \/ EndLoop
  \/ ComposePdf
  \/ WriteOutput
  \/ CloseBrowser
  \/ StopServer
  \/ RemoveTmp
  \/ CatchError

Spec == Init /\ [][Next]_vars

(***************************************************************************)
(* Vocabulary of the properties.                                           *)
(***************************************************************************)
Entries == archive.slides.entries

\* the all-digit-named subdirectories of slides/
NumericFolders ==
  { n \in DOMAIN Entries :
      Entries[n] \in {"dir", "dirIndex"} /\ \A k \in 1..Len(n) : n[k] \in {"1", "2"} }

\* the subdirectories of slides/ that contain an index.html
IndexFolders == { n \in DOMAIN Entries : Entries[n] = "dirIndex" }

\* some candidate URL of slide s is answered with status 200
Resolved(s) ==
  \E k \in 1..5 : ServerFetch(archive, TryPaths(s)[k]).status = 200

\* the slide each page of the output file was captured for
PageSlides == [k \in 1..Len(output.pages) |-> output.pages[k].image.slide]

ImageSlides == [k \in 1..Len(images) |-> images[k].slide]

Exited == pc = "exited"

BeforeEnumeration == {"args", "stat", "mkdtemp", "extract", "manifest", "slides"}

(***************************************************************************)
(* C1.  With K all-digit-named slide folders, each holding an index.html,  *)
(* a run that ends with status 0 has written a PDF of exactly K pages,     *)
(* page j showing the index.html of the folder with the j-th smallest      *)
(* numeric value; and the captured images are always in SlideSet order.    *)
(***************************************************************************)
C1_NumericOrder ==
  /\ \A k \in 1..Len(images) :
       /\ images[k].path < Len(slideDirs)
       /\ images[k].slide = slideDirs[images[k].path + 1]
       /\ \A j \in 1..(k - 1) : images[j].path < images[k].path
  /\ output.written => \A k \in 1..Len(output.pages) : output.pages[k].image = images[k]
  /\ ( /\ exitCode = 0
       /\ NumericFolders # {}
       /\ \A n \in NumericFolders : Entries[n] = "dirIndex" )
     => /\ output.written
        /\ Len(output.pages) = Cardinality(NumericFolders)
        /\ { PageSlides[k] : k \in 1..Len(output.pages) } = NumericFolders
        /\ \A j, k \in 1..Len(output.pages) :
             j < k => NumberOf(PageSlides[j]) < NumberOf(PageSlides[k])
        /\ \A k \in 1..Len(output.pages) :
             output.pages[k].image.shown = <<SlidesSeg, PageSlides[k], IndexSeg>>

\* a successful run over the folders 1, 2 and 12, where 12 sorts before 2
\* lexicographically
C1_Witness ==
  /\ exitCode = 0
  /\ NumericFolders = { <<"1">>, <<"2">>, <<"1", "2">> }
  /\ \A n \in NumericFolders : Entries[n] = "dirIndex"
  /\ PageSlides = << <<"1">>, <<"2">>, <<"1", "2">> >>

(***************************************************************************)
(* C2.  The statement of the claim: with an all-digit folder the SlideSet  *)
(* holds all-digit names only; without one the SlideSet is the M folders   *)
(* that hold an index.html, in lexicographic order, and a run that ends    *)
(* with status 0 has written exactly M pages in that order.                *)
(***************************************************************************)
C2_FallbackPages ==
  (pc \notin BeforeEnumeration /\ slideDirs # <<>>)
  => /\ NumericFolders # {}
          => \A k \in 1..Len(slideDirs) : slideDirs[k] \in NumericFolders
     /\ NumericFolders = {}
          => /\ Len(slideDirs) = Cardinality(IndexFolders)
             /\ { slideDirs[k] : k \in 1..Len(slideDirs) } = IndexFolders
             /\ \A j, k \in 1..Len(slideDirs) :
                  j < k => StringLess(slideDirs[j], slideDirs[k])
             /\ exitCode = 0
                  => /\ Len(output.pages) = Cardinality(IndexFolders)
                     /\ PageSlides = slideDirs

(***************************************************************************)
(* C3.  When slides/ cannot be listed, or holds neither an all-digit       *)
(* directory nor a directory with an index.html, the run ends at the       *)
(* enumeration with status 1: the listener and the browser are never       *)
(* started and no output file is written.                                  *)
(***************************************************************************)
BothStrategiesEmpty ==
  ~archive.slides.exists \/ (NumericFolders = {} /\ IndexFolders = {})

\* C3: no slides found ends the run with status 1 before the listener and
\* the browser are started, with no output file
C3_NoSlidesFound ==
  /\ BothStrategiesEmpty
       => /\ pc \in BeforeEnumeration \cup {"exited"}
          /\ srv = "none"
          /\ browser = "none"
          /\ ~output.written
          /\ Exited => exitCode \in {1, 2}
  /\ exitReason = "NoSlidesFound"
       => BothStrategiesEmpty /\ exitCode = 1 /\ srv = "none"
          /\ browser = "none" /\ ~output.written

\* the run has ended on an archive without a slides directory
C3_Witness ==
  /\ exitReason = "NoSlidesFound"
  /\ ~archive.slides.exists
  /\ exitCode = 1

(***************************************************************************)
(* C4.  The statement of the claim: once the working directory exists,     *)
(* every exit has attempted its removal, after the browser's shutdown (if  *)
(* one was launched) and the listener's shutdown (if one was started).     *)
(***************************************************************************)
IndexOf(call) ==
  IF \E k \in 1..Len(calls) : calls[k] = call
  THEN CHOOSE k \in 1..Len(calls) : calls[k] = call /\ \A l \in 1..(k - 1) : calls[l] # call
  ELSE 0

\* C4: every exit after the working directory was created has attempted
\* the cleanup calls in order
C4_CleanupOnEveryExit ==
  (Exited /\ tmp # "none")
  => /\ IndexOf("rm") > 0
     /\ srv # "none" => (0 < IndexOf("srv.stop") /\ IndexOf("srv.stop") < IndexOf("rm"))
     /\ browser # "none"
          => (0 < IndexOf("browser.close") /\ IndexOf("browser.close") < IndexOf("srv.stop"))

(***************************************************************************)
(* C5.  The statement of the claim: once the listener has been started,    *)
(* every exit has called the listener's stop, and the browser's close if a *)
(* browser was launched.                                                   *)
(***************************************************************************)
C5_ListenerAndBrowserReleased ==
  (Exited /\ srv # "none")
  => /\ IndexOf("srv.stop") > 0
     /\ browser # "none" => IndexOf("browser.close") > 0

(***************************************************************************)
(* C6.  The statement of the claim: the output file is written only once   *)
(* every resolved slide has been captured, and a run ends with status 0    *)
(* exactly when the output file has been written.                          *)
(***************************************************************************)
C6_StatusZeroIffOutput ==
  /\ output.written => ImageSlides = SelectSeq(slideDirs, Resolved)
  /\ Exited => (exitCode = 0 <=> output.written)

(***************************************************************************)
(* C7.  A slide none of whose candidate URLs is answered with 200 is       *)
(* skipped: the step neither ends the run nor adds an image, the loop goes *)
(* on with the next slide, the pages of a run that ends with status 0 are  *)
(* the resolved slides in SlideSet order, and the run ends with "no slides *)
(* were rendered" only with no image at all.                               *)
(***************************************************************************)
C7_SkipStep ==
  (pc = "loop" /\ i < Len(slideDirs) /\ ~Resolved(slideDirs[i + 1]))
  => /\ pc' = "loop"
     /\ i' = i + 1
     /\ images' = images
     /\ exitCode' = Running

C7_PagesAreResolvedSlides ==
  /\ pc \in {"loop", "goto", "screenshot"}
       => ImageSlides = SelectSeq(SubSeq(slideDirs, 1, i), Resolved)
  /\ exitCode = 0
       => output.written /\ PageSlides = SelectSeq(slideDirs, Resolved)
  /\ exitReason = "NoRenderableSlides"
       => exitCode = 1 /\ images = <<>> /\ ~output.written

\* C7: an unresolved slide is skipped and the pages are the resolved slides
C7_SkipUnresolved == [][C7_SkipStep]_vars /\ []C7_PagesAreResolvedSlides

\* a successful run in which a skipped slide precedes a rendered one
C7_Witness ==
  /\ exitCode = 0
  /\ \E j, k \in 1..Len(slideDirs) :
       j < k /\ ~Resolved(slideDirs[j]) /\ Resolved(slideDirs[k])
  /\ Len(output.pages) < Len(slideDirs)

(***************************************************************************)
(* C8.  The statement of the claim: a navigation that does not complete    *)
(* within its timeout ends that slide's attempt only, and the loop goes on *)
(* with the next slide.                                                    *)
(***************************************************************************)
C8_TimeoutStep ==
  (pc = "goto" /\ pc' # "screenshot")
  => pc' = "loop" /\ i' = i + 1 /\ exitCode' = Running

\* C8: a navigation timeout never ends the run
C8_TimeoutSkipsSlide == [][C8_TimeoutStep]_vars

(***************************************************************************)
(* C9.  The statement of the claim: once resolved, the canvas is the       *)
(* manifest's width and height when both are numbers, and 1280 by 720      *)
(* otherwise.                                                              *)
(***************************************************************************)
C9_CanvasNumericOrDefault ==
  (slideWidth # Undefined \/ slideHeight # Undefined)
  => \/ /\ archive.manifest.kind = "json"
        /\ archive.manifest.width.t = "number"
        /\ archive.manifest.height.t = "number"
        /\ slideWidth = archive.manifest.width
        /\ slideHeight = archive.manifest.height
     \/ /\ slideWidth = [t |-> "number", v |-> 1280]
        /\ slideHeight = [t |-> "number", v |-> 720]

(***************************************************************************)
(* C10.  Every page measures canvas * 72 / 96 points each way, its image   *)
(* drawn at (0, 0) over the whole page; a 1920 by 1080 manifest gives      *)
(* pages of 1440 by 810 points, an absent manifest pages of 960 by 540.    *)
(***************************************************************************)
C10_PageSize ==
  /\ output.written => output.pages = pdfDoc
  /\ \A k \in 1..Len(pdfDoc) :
       LET p == pdfDoc[k]
       IN  /\ p.width * 96 = ToNumber(slideWidth) * 72
           /\ p.height * 96 = ToNumber(slideHeight) * 72
           /\ p.draw = [x |-> 0, y |-> 0, width |-> p.width, height |-> p.height]
           /\ p.width = pdfDoc[1].width /\ p.height = pdfDoc[1].height
           /\ archive.manifest = JsonManifest(Num(1920), Num(1080))
                => p.width = 1440 /\ p.height = 810
           /\ archive.manifest.kind = "missing"
                => p.width = 960 /\ p.height = 540

\* a written PDF of several pages under a 1920 by 1080 manifest
C10_Witness ==
  /\ exitCode = 0
  /\ archive.manifest = JsonManifest(Num(1920), Num(1080))
  /\ Len(output.pages) >= 2
  /\ output.pages[2].width = 1440

(***************************************************************************)
(* C11.  The URL navigated to for a slide is the first of                  *)
(* /slides/<id>/index.html, /slides/<id>, /<id>/index.html, /<id> and      *)
(* /slides/<id>.html that the server answers with 200; a slide answered    *)
(* only at /slides/<id> becomes a page of a successful run, and a slide is *)
(* skipped only when all five are refused.                                 *)
(***************************************************************************)
Candidate(s, k) ==
  CASE k = 1 -> << <<"slides">>, s, <<"index.html">> >>
    [] k = 2 -> << <<"slides">>, s >>
    [] k = 3 -> << s, <<"index.html">> >>
    [] k = 4 -> << s >>
    [] k = 5 -> << <<"slides">>, s \o <<".html">> >>

Succeeds(s, k) == ServerFetch(archive, Candidate(s, k)).status = 200

FirstSuccess(s, k) == Succeeds(s, k) /\ \A l \in 1..(k - 1) : ~Succeeds(s, l)

\* C11: the first candidate answered with 200 is the one navigated to
C11_FirstCandidateWins ==
  /\ pc \in {"goto", "screenshot"}
       => \E k \in 1..5 : /\ FirstSuccess(slideDirs[i + 1], k)
                          /\ urlPath = Candidate(slideDirs[i + 1], k)
  /\ \A m \in 1..Len(images) :
       \E k \in 1..5 :
         /\ FirstSuccess(images[m].slide, k)
         /\ images[m].shown = ServerFetch(archive, Candidate(images[m].slide, k)).file
  /\ \A j \in 1..i :
       (j <= Len(slideDirs) /\ \A m \in 1..Len(images) : images[m].path # j - 1)
       => \A k \in 1..5 : ~Succeeds(slideDirs[j], k)
  /\ exitCode = 0
       => \A j \in 1..Len(slideDirs) :
            (Succeeds(slideDirs[j], 2) /\ ~Succeeds(slideDirs[j], 1))
            => \E m \in 1..Len(output.pages) : PageSlides[m] = slideDirs[j]

\* a successful run with a page for a slide answered at /slides/<id> but not
\* at /slides/<id>/index.html
C11_Witness ==
  /\ exitCode = 0
  /\ \E m \in 1..Len(output.pages) :
       /\ Succeeds(PageSlides[m], 2)
       /\ ~Succeeds(PageSlides[m], 1)
       /\ output.pages[m].image.shown = << <<"slides">>, PageSlides[m] >>

(***************************************************************************)
(* C12.  The statement of the claim: a probe is answered with 200 only     *)
(* when its URL resolves to a regular file, and a slide folder without an  *)
(* index.html never becomes a captured image or a page.                    *)
(***************************************************************************)
C12_OnlyFilesServed ==
  /\ pc \in {"goto", "screenshot"}
       => Lookup(archive, ServerFetch(archive, urlPath).file) = "file"
  /\ \A m \in 1..Len(images) : Lookup(archive, images[m].shown) = "file"
  /\ \A m \in 1..Len(images) : Entries[images[m].slide] = "dirIndex"
  /\ \A m \in 1..Len(output.pages) : Entries[PageSlides[m]] = "dirIndex"

=============================================================================
